---- MODULE Spec2Model ----
(***************************************************************************)
(* Model of the yuntun-plugin-zhuye server-side-rendering handler          *)
(* (handlSSR) and of the registration page's SMS-code countdown.           *)
(*                                                                         *)
(* JavaScript strings are sequences of one-character strings, so that      *)
(* String.prototype.replace, indexOf and JSON.stringify are computed       *)
(* character by character, as the engine computes them.                    *)
(***************************************************************************)
EXTENDS Integers, Sequences, FiniteSets, TLC

VARIABLES
    pc,           \* per request: position of handlSSR
    request,      \* per request: [url, state] as hapi hands it to the handler
    store,        \* per request: the Redux store's state
    context,      \* per request: the StaticRouter context object
    modules,      \* per request: module ids reported to Loadable.Capture
    routeMarkup,  \* per request: what the awaited render pass settled to
    helmet,       \* process-wide: react-helmet's recorded side-effect state
    response,     \* per request: what the handler returned
    console,      \* per request: whether console.error was called
    renders,      \* per request: number of frontloadServerRender calls
    head,         \* per request: what Helmet.renderStatic() returned
    thrown,       \* per request: whether a step of the handler threw
    asm,          \* document assembly on its own: inputs and result
    sel,          \* asset selection on its own: inputs and result
    countdown,    \* Regist: the countdown state (useState)
    timers,       \* Regist: pending setTimeout callbacks
    mounted,      \* Regist: whether a Regist instance is mounted
    instance      \* Regist: number of the instance mounted last

handlerVars == <<pc, request, store, context, modules, routeMarkup, helmet,
                 response, console, renders, head, thrown>>
registVars == <<countdown, timers, mounted, instance>>
vars == <<pc, request, store, context, modules, routeMarkup, helmet, response,
          console, renders, head, thrown, asm, sel, countdown, timers, mounted,
          instance>>

\* JavaScript values held in the store: null, or a string
JsNull == [type |-> "null", chars |-> <<>>]
JsString(s) == [type |-> "string", chars |-> s]

(***************************************************************************)
(* Strings                                                                 *)
(***************************************************************************)

\* s has p as a substring starting at (1-based) index i
MatchesAt(s, p, i) ==
    /\ i >= 1
    /\ i + Len(p) - 1 <= Len(s)
    /\ SubSeq(s, i, i + Len(p) - 1) = p

\* String.prototype.indexOf(p, from), 1-based; 0 when p does not occur
IndexFrom(s, p, from) ==
    LET M == {i \in from..(Len(s) - Len(p) + 1) :
                  p = <<>> \/ (s[i] = p[1] /\ MatchesAt(s, p, i))}
    IN  IF M = {} THEN 0 ELSE CHOOSE i \in M : \A j \in M : i <= j

IndexOf(s, p) == IndexFrom(s, p, 1)

Contains(s, p) == IndexOf(s, p) # 0

EndsWith(s, p) == Len(s) >= Len(p) /\ MatchesAt(s, p, Len(s) - Len(p) + 1)

RECURSIVE Concat(_)
Concat(ss) == IF ss = <<>> THEN <<>> ELSE Head(ss) \o Concat(Tail(ss))

\* The index of the first character of s that is in set C; 0 when there is none
FirstOf(s, C) ==
    LET M == {i \in 1..Len(s) : s[i] \in C}
    IN  IF M = {} THEN 0 ELSE CHOOSE i \in M : \A j \in M : i <= j

\* The grave accent U+0060, which a TLA+ string cannot hold
Grave == "GRAVE"

\* The replacement text of String.prototype.replace for one match: "$$" is a
\* dollar, "$&" the match, "$" and a grave accent the text before it, "$'" the
\* text after it; without capture groups every other "$" stands for itself.
RECURSIVE GetSubstitution(_, _, _, _)
GetSubstitution(matched, before, after, rep) ==
    LET i == FirstOf(rep, {"$"})
    IN  IF i = 0 THEN rep
        ELSE IF i < Len(rep) /\ rep[i + 1] \in {"$", "&", Grave, "'"}
        THEN SubSeq(rep, 1, i - 1)
             \o (CASE rep[i + 1] = "$" -> <<"$">>
                   [] rep[i + 1] = "&" -> matched
                   [] rep[i + 1] = Grave -> before
                   [] rep[i + 1] = "'" -> after)
             \o GetSubstitution(matched, before, after, SubSeq(rep, i + 2, Len(rep)))
        ELSE SubSeq(rep, 1, i)
             \o GetSubstitution(matched, before, after, SubSeq(rep, i + 1, Len(rep)))

\* s.replace(pat, rep) with a string pattern: the first occurrence only
Replace(s, pat, rep) ==
    LET i == IndexOf(s, pat)
    IN  IF i = 0 THEN s
        ELSE LET before == SubSeq(s, 1, i - 1)
                 after  == SubSeq(s, i + Len(pat), Len(s))
             IN  before \o GetSubstitution(pat, before, after, rep) \o after

TitleOpen == <<"<", "t", "i", "t", "l", "e", ">">>
TitleClose == <<"<", "/", "t", "i", "t", "l", "e", ">">>
LineTerminators == {"\n", "\r"}

\* Where /<title>.*?<\/title>/ matches starting at i: the index of the
\* nearest closing tag, provided no line terminator lies between ("." does
\* not match one); 0 when there is no match at i.
TitleMatchEnd(s, i) ==
    IF ~MatchesAt(s, TitleOpen, i) THEN 0
    ELSE LET j == IndexFrom(s, TitleClose, i + Len(TitleOpen))
         IN  IF j = 0 THEN 0
             ELSE IF \E k \in (i + Len(TitleOpen))..(j - 1) : s[k] \in LineTerminators
             THEN 0
             ELSE j

\* s.replace(/<title>.*?<\/title>/g, rep): every match, left to right, from
\* position pos on; the substitution patterns refer to the original string.
RECURSIVE ReplaceTitleFrom(_, _, _)
ReplaceTitleFrom(s, rep, pos) ==
    LET M == {i \in pos..Len(s) : s[i] = "<" /\ TitleMatchEnd(s, i) # 0}
    IN  IF M = {} THEN SubSeq(s, pos, Len(s))
        ELSE LET i == CHOOSE x \in M : \A y \in M : x <= y
                 e == TitleMatchEnd(s, i) + Len(TitleClose)
             IN  SubSeq(s, pos, i - 1)
                 \o GetSubstitution(SubSeq(s, i, e - 1), SubSeq(s, 1, i - 1),
                                    SubSeq(s, e, Len(s)), rep)
                 \o ReplaceTitleFrom(s, rep, e)

ReplaceTitleAll(s, rep) == ReplaceTitleFrom(s, rep, 1)

(***************************************************************************)
(* injectHTML                                                              *)
(***************************************************************************)

HtmlTag == <<"<", "h", "t", "m", "l", ">">>
HeadClose == <<"<", "/", "h", "e", "a", "d", ">">>
RootDiv == <<"<", "d", "i", "v", " ", "i", "d", "=", "\"", "r", "o", "o", "t", "\"", ">", "<", "/", "d", "i", "v", ">">>
BodyClose == <<"<", "/", "b", "o", "d", "y", ">">>
RootOpen == <<"<", "d", "i", "v", " ", "i", "d", "=", "\"", "r", "o", "o", "t", "\"", ">">>
RootCloseAndStateOpen == <<"<", "/", "d", "i", "v", ">", "<", "s", "c", "r", "i", "p", "t", ">", "w", "i", "n", "d", "o", "w", ".", "_", "_", "P", "R", "E", "L", "O", "A", "D", "E", "D", "_", "S", "T", "A", "T", "E", "_", "_", " ", "=", " ">>
StateOpen == <<"w", "i", "n", "d", "o", "w", ".", "_", "_", "P", "R", "E", "L", "O", "A", "D", "E", "D", "_", "S", "T", "A", "T", "E", "_", "_", " ", "=", " ">>
ScriptClose == <<"<", "/", "s", "c", "r", "i", "p", "t", ">">>

injectHTML(data, f) ==
    LET d1 == Replace(data, HtmlTag, <<"<", "h", "t", "m", "l", " ">> \o f.html \o <<">">>)
        d2 == ReplaceTitleAll(d1, f.title)
        d3 == Replace(d2, HeadClose, f.meta \o f.styles \o HeadClose)
        d4 == Replace(d3, RootDiv,
                      RootOpen \o f.body \o RootCloseAndStateOpen \o f.state
                      \o ScriptClose)
        d5 == Replace(d4, BodyClose, Concat(f.scripts) \o BodyClose)
    IN  d5

\* JSON.stringify of a string: quotes, with quote, backslash and newline escaped
RECURSIVE QuoteJSONString(_)
QuoteJSONString(s) ==
    LET i == FirstOf(s, {"\"", "\\", "\n"})
    IN  IF i = 0 THEN s
        ELSE SubSeq(s, 1, i - 1)
             \o (CASE s[i] = "\"" -> <<"\\", "\"">>
                   [] s[i] = "\\" -> <<"\\", "\\">>
                   [] s[i] = "\n" -> <<"\\", "n">>)
             \o QuoteJSONString(SubSeq(s, i + 1, Len(s)))

\* JSON.stringify(store.getState()): the state holds the auth module's
\* current user, null when logged out
stringify(st) ==
    <<"{", "\"", "c", "u", "r", "r", "e", "n", "t", "U", "s", "e", "r", "\"", ":">>
    \o (IF st.currentUser.type = "null" THEN <<"n", "u", "l", "l">>
        ELSE <<"\"">> \o QuoteJSONString(st.currentUser.chars) \o <<"\"">>)
    \o <<"}">>

\* .replace(/</g, "\\u003c")
RECURSIVE escapeLt(_)
escapeLt(s) ==
    LET i == FirstOf(s, {"<"})
    IN  IF i = 0 THEN s
        ELSE SubSeq(s, 1, i - 1) \o <<"\\", "u", "0", "0", "3", "c">> \o escapeLt(SubSeq(s, i + 1, Len(s)))

serializeState(st) == escapeLt(stringify(st))

(***************************************************************************)
(* Asset selection (extractAssets and the script tags)                     *)
(***************************************************************************)

JsSuffix == <<".", "j", "s">>

\* chunks.indexOf(x) > -1
Includes(chunks, x) == \E i \in 1..Len(chunks) : chunks[i] = x

\* Object.keys(assets).filter(...).map(k => assets[k]); assets is the
\* manifest as the sequence of its entries in Object.keys order
RECURSIVE extractAssets(_, _)
extractAssets(assets, chunks) ==
    IF assets = <<>> THEN <<>>
    ELSE (IF Includes(chunks, Replace(Head(assets).key, JsSuffix, <<>>))
          THEN <<Head(assets).path>> ELSE <<>>)
         \o extractAssets(Tail(assets), chunks)

\* c.replace(/^\//, "")
StripLeadingSlash(c) == IF c # <<>> /\ Head(c) = "/" THEN Tail(c) ELSE c

ScriptTag(c) ==
    <<"<", "s", "c", "r", "i", "p", "t", " ", "t", "y", "p", "e", "=", "\"", "t", "e", "x", "t", "/", "j", "a", "v", "a", "s", "c", "r", "i", "p", "t", "\"", " ", "s", "r", "c", "=", "\"">> \o StripLeadingSlash(c) \o <<"\"", ">", "<", "/", "s", "c", "r", "i", "p", "t", ">">>

RECURSIVE ScriptTags(_)
ScriptTags(cs) ==
    IF cs = <<>> THEN <<>> ELSE <<ScriptTag(Head(cs))>> \o ScriptTags(Tail(cs))

extraChunks(assets, chunks) == ScriptTags(extractAssets(assets, chunks))

(***************************************************************************)
(* Document assembly on its own (AssembleSpec): the template, the          *)
(* fragments and the store state are drawn from small sets, and one step   *)
(* assembles the document as handlSSR does.                                *)
(***************************************************************************)

\* build/index.html: the text around the five markers
TplHead == <<"<", "h", "e", "a", "d", ">">>
TplBody == <<"<", "b", "o", "d", "y", ">">>
TplEnd == <<"<", "/", "h", "t", "m", "l", ">">>

TemplateOf(titleText) ==
    HtmlTag \o TplHead \o TitleOpen \o titleText \o TitleClose \o HeadClose
    \o TplBody \o RootDiv \o BodyClose \o TplEnd

TemplateTitles == {<<"A", "p", "p">>, <<"A", "\n", "B">>}
HtmlAttrs == {<<>>, <<"l", "a", "n", "g", "=", "\"", "z", "h", "\"">>}
Titles == {<<"<", "t", "i", "t", "l", "e", ">", "L", "o", "g", "i", "n", "<", "/", "t", "i", "t", "l", "e", ">">>, <<"<", "t", "i", "t", "l", "e", ">", "$", "&", "<", "/", "t", "i", "t", "l", "e", ">">>, <<"<", "t", "i", "t", "l", "e", ">", "Q", "&", "a", "m", "p", ";", "A", "<", "/", "t", "i", "t", "l", "e", ">">>}
Metas == {<<>>, <<"<", "m", "e", "t", "a", " ", "n", "a", "m", "e", "=", "\"", "d", "\"", ">">>}
Styles == {<<"<", "s", "t", "y", "l", "e", ">", "a", "{", "}", "<", "/", "s", "t", "y", "l", "e", ">">>}
Bodies == {<<"<", "p", ">", "L", "<", "/", "p", ">">>, <<"<", "p", ">", "$", "'", "<", "/", "p", ">">>}
ScriptLists == {<<>>, <<<<"<", "s", "c", "r", "i", "p", "t", " ", "s", "r", "c", "=", "\"", "a", ".", "j", "s", "\"", ">", "<", "/", "s", "c", "r", "i", "p", "t", ">">>>>}
UserValues == {JsNull, JsString(<<"u">>), JsString(<<"<">>), JsString(<<"$", "&">>), JsString(<<"$", "'">>),
               JsString(<<"$", Grave>>), JsString(<<"$", "$">>), JsString(<<"<", "/", "s", "c", "r", "i", "p", "t", ">">>)}

AsmIdle == [phase |-> "idle", titleText |-> <<>>, html |-> <<>>, title |-> <<>>,
            meta |-> <<>>, styles |-> <<>>, body |-> <<>>, scripts |-> <<>>,
            user |-> JsNull, out |-> <<>>]

AsmInputs ==
    [phase : {"input"}, titleText : TemplateTitles, html : HtmlAttrs,
     title : Titles, meta : Metas, styles : Styles, body : Bodies,
     scripts : ScriptLists, user : UserValues, out : {<<>>}]

\* The fragment record handed to injectHTML
Fragments(a) ==
    [html |-> a.html, title |-> a.title, meta |-> a.meta, body |-> a.body,
     scripts |-> a.scripts, styles |-> a.styles,
     state |-> serializeState([currentUser |-> a.user])]

Assemble ==
    /\ asm.phase = "input"
    /\ asm' = [asm EXCEPT !.phase = "done",
                          !.out = injectHTML(TemplateOf(asm.titleText), Fragments(asm))]
    /\ UNCHANGED <<handlerVars, sel, registVars>>

\* The text between "window.__PRELOADED_STATE__ = " and the next "</script>"
StateRegion(doc) ==
    LET i == IndexOf(doc, StateOpen)
        b == i + Len(StateOpen)
        e == IndexFrom(doc, ScriptClose, b)
    IN  IF i = 0 \/ e = 0 THEN <<>> ELSE SubSeq(doc, b, e - 1)

\* The template with each fragment spliced in as given
Spliced(titleText, f) ==
    <<"<", "h", "t", "m", "l", " ">> \o f.html \o <<">">> \o TplHead \o f.title \o f.meta \o f.styles
    \o HeadClose \o TplBody \o RootOpen \o f.body \o RootCloseAndStateOpen
    \o f.state \o ScriptClose \o Concat(f.scripts) \o BodyClose \o TplEnd

\* C3: the serialized state embedded in the assembled document, between
\* "window.__PRELOADED_STATE__ = " and the closing "</script>", never holds a
\* literal "<".
C3_EmbeddedStateHasNoLt ==
    asm.phase = "done" => ~Contains(StateRegion(asm.out), <<"<">>)

\* C8: on a template holding each marker exactly once, the assembled document
\* is the template with every fragment spliced in as given, whatever the
\* fragments hold.
C8_AssemblyIsTextualSplice ==
    asm.phase = "done" => asm.out = Spliced(asm.titleText, Fragments(asm))

(***************************************************************************)
(* handlSSR (Spec): NumReqs requests handled concurrently by one process.  *)
(* JavaScript runs each synchronous stretch of the handler to completion;  *)
(* requests interleave at the await of the render pass only.               *)
(***************************************************************************)

NumReqs == 2
MaxRenders == 2

Reqs == 1..NumReqs

\* What the view tree (<App />, outside this model) renders for a url: the
\* Helmet title and meta tags, the style tags, the body markup, the
\* code-split modules it touches and the redirect it asks for (none: empty).
View(url) ==
    CASE url = <<"/", "l", "o", "g", "i", "n">> ->
           [title |-> <<"<", "t", "i", "t", "l", "e", ">", "L", "o", "g", "i", "n", "<", "/", "t", "i", "t", "l", "e", ">">>, meta |-> <<>>,
            styles |-> <<"<", "s", "t", "y", "l", "e", ">", "a", "{", "}", "<", "/", "s", "t", "y", "l", "e", ">">>, body |-> <<"<", "p", ">", "L", "<", "/", "p", ">">>,
            modules |-> <<<<"l", "o", "g", "i", "n">>>>, redirect |-> <<>>]
      [] url = <<"/", "r", "e", "g", "i", "s", "t">> ->
           [title |-> <<"<", "t", "i", "t", "l", "e", ">", "R", "e", "g", "i", "s", "t", "<", "/", "t", "i", "t", "l", "e", ">">>, meta |-> <<"<", "m", "e", "t", "a", " ", "n", "a", "m", "e", "=", "\"", "d", "\"", ">">>,
            styles |-> <<>>, body |-> <<"<", "p", ">", "R", "<", "/", "p", ">">>,
            modules |-> <<<<"r", "e", "g", "i", "s", "t">>>>, redirect |-> <<>>]
      [] OTHER ->
           [title |-> <<"<", "t", "i", "t", "l", "e", ">", "H", "o", "m", "e", "<", "/", "t", "i", "t", "l", "e", ">">>, meta |-> <<"<", "m", "e", "t", "a", " ", "n", "a", "m", "e", "=", "\"", "h", "\"", ">">>,
            styles |-> <<>>, body |-> <<>>,
            modules |-> <<>>, redirect |-> <<"/", "l", "o", "g", "i", "n">>]

\* The requests that arrive: a url and request.state, the parsed cookies
\* (has says whether "mywebsite" is a key of it)
Requests ==
    {[url |-> <<"/", "l", "o", "g", "i", "n">>, state |-> [has |-> FALSE, mywebsite |-> <<>>]],
     [url |-> <<"/", "l", "o", "g", "i", "n">>, state |-> [has |-> TRUE, mywebsite |-> <<"$", "&">>]],
     [url |-> <<"/", "r", "e", "g", "i", "s", "t">>, state |-> [has |-> TRUE, mywebsite |-> <<"u">>]],
     [url |-> <<"/">>, state |-> [has |-> FALSE, mywebsite |-> <<>>]]}

NoRequest == [url |-> <<>>, state |-> [has |-> FALSE, mywebsite |-> <<>>]]

\* build/index.html and build/asset-manifest.json
htmlData == TemplateOf(<<"A", "p", "p">>)
manifest ==
    <<[key |-> <<"l", "o", "g", "i", "n", ".", "j", "s">>, path |-> <<"/", "s", "t", "a", "t", "i", "c", "/", "l", "o", "g", "i", "n", ".", "1", ".", "j", "s">>],
      [key |-> <<"r", "e", "g", "i", "s", "t", ".", "j", "s">>, path |-> <<"/", "s", "t", "a", "t", "i", "c", "/", "r", "e", "g", "i", "s", "t", ".", "a", "b", "c", "1", "2", "3", ".", "j", "s">>],
      [key |-> <<"m", "a", "i", "n", ".", "j", "s">>, path |-> <<"/", "s", "t", "a", "t", "i", "c", "/", "m", "a", "i", "n", ".", "2", ".", "j", "s">>]>>

\* createStore(request.url): a fresh store; what the auth reducer starts
\* from is not fixed by the handler
StoreDefaults == {[currentUser |-> JsNull], [currentUser |-> JsString(<<"g", "u", "e", "s", "t">>)]}

\* The auth reducer under setCurrentUser(user) and logoutUser()
setCurrentUser(st, user) == [st EXCEPT !.currentUser = JsString(user)]
logoutUser(st) == [st EXCEPT !.currentUser = JsNull]

\* seedAuth with the else branch left out: no logout is dispatched when the
\* cookie is absent (a fault C5 must detect).
seedAuthNoLogout(st, state) ==
    IF state.has THEN setCurrentUser(st, state.mywebsite) ELSE st

\* if ("mywebsite" in request.state) dispatch(setCurrentUser(...)) else dispatch(logoutUser())
seedAuth(st, state) ==
    IF state.has THEN setCurrentUser(st, state.mywebsite) ELSE logoutUser(st)

\* react-helmet keeps what the mounted <Helmet> instances declare in one
\* process-wide record: a later instance's title replaces an earlier one's,
\* and so does its meta tag when it declares one. titleOf and metaOf name
\* the request whose render mounted the instance (0: none).
HelmetEmpty == [title |-> <<>>, titleOf |-> 0, meta |-> <<>>, metaOf |-> 0]

HelmetMount(h, r, v) ==
    [title |-> v.title, titleOf |-> r,
     meta |-> IF v.meta # <<>> THEN v.meta ELSE h.meta,
     metaOf |-> IF v.meta # <<>> THEN r ELSE h.metaOf]

\* Helmet.renderStatic(): the recorded state, an empty title element when
\* nothing is recorded (the recorded state is then reset: see Resume)
renderStatic(h) == IF h.titleOf = 0 THEN [h EXCEPT !.title = <<"<", "t", "i", "t", "l", "e", ">", "<", "/", "t", "i", "t", "l", "e", ">">>] ELSE h

NoResponse == [kind |-> "none", code |-> 0, location |-> <<>>, body |-> <<>>]
NotFound == [kind |-> "NOT_FOUND", code |-> 404, location |-> <<>>, body |-> <<>>]
ServerError == [kind |-> "ERROR", code |-> 500, location |-> <<>>, body |-> <<>>]

\* Redirect gone wrong: a permanent redirect to the requested url (a fault C1
\* must detect).
RedirectToSelf(r) ==
    [kind |-> "REDIRECT", code |-> 301, location |-> request[r].url,
     body |-> <<"r", "e", "d", "i", "r", "e", "c", "t", ".", ".", ".">>]

\* h.response("redirect...").code(302).header("Location", context.url)
Redirect(r) ==
    [kind |-> "REDIRECT", code |-> 302, location |-> context[r].url,
     body |-> <<"r", "e", "d", "i", "r", "e", "c", "t", ".", ".", ".">>]

\* return html: hapi answers 200 with the document
Document(html) == [kind |-> "DOCUMENT", code |-> 200, location |-> <<>>, body |-> html]

NoMarkup == [status |-> "none", markup |-> <<>>]
NoHead == [title |-> <<>>, titleOf |-> 0, meta |-> <<>>, metaOf |-> 0]

\* Caught with the template read before the try block is entered (a fault C2
\* must detect).
CaughtAfterRead(step) == step # "read"

\* The try block encloses every step of the handler
Caught(step) == TRUE

\* Catch with the handler entered again after a failure (a fault C9 must
\* detect).
CatchAndRetry(r, step) ==
    /\ pc' = [pc EXCEPT ![r] = "rendering"]
    /\ thrown' = [thrown EXCEPT ![r] = TRUE]
    /\ console' = [console EXCEPT ![r] = TRUE]
    /\ UNCHANGED response

\* An exception thrown at step: catch (err) { console.error(...); return
\* h.response().code(404) }; outside the try block it reaches hapi (500)
Catch(r, step) ==
    /\ pc' = [pc EXCEPT ![r] = "done"]
    /\ thrown' = [thrown EXCEPT ![r] = TRUE]
    /\ console' = [console EXCEPT ![r] = Caught(step)]
    /\ response' = [response EXCEPT ![r] = IF Caught(step) THEN NotFound ELSE ServerError]

\* hapi hands a GET request to the handler
Arrive(r) ==
    /\ pc[r] = "idle"
    /\ \E req \in Requests : request' = [request EXCEPT ![r] = req]
    /\ pc' = [pc EXCEPT ![r] = "rendering"]
    /\ UNCHANGED <<store, context, modules, routeMarkup, helmet, head, response,
                   console, renders, thrown, asm, sel, registVars>>

\* The handler from its entry to the await: the template read, the store,
\* the cookie dispatch and frontloadServerRender's first render
Start(r) ==
    /\ pc[r] = "rendering"
    /\ renders[r] < MaxRenders
    /\ \/ /\ \E step \in {"read", "store"} : Catch(r, step)
          /\ UNCHANGED <<store, context, modules, routeMarkup, helmet, renders>>
       \/ /\ Catch(r, "dispatch")
          /\ UNCHANGED <<store, context, modules, routeMarkup, helmet, renders>>
       \/ /\ \E d \in StoreDefaults :
                 store' = [store EXCEPT ![r] = seedAuth(d, request[r].state)]
          /\ renders' = [renders EXCEPT ![r] = @ + 1]
          /\ \/ /\ Catch(r, "render")
                /\ UNCHANGED <<context, modules, routeMarkup, helmet>>
             \/ /\ context' = [context EXCEPT ![r] = [url |-> View(request[r].url).redirect]]
                /\ modules' = [modules EXCEPT ![r] = View(request[r].url).modules]
                /\ helmet' = HelmetMount(helmet, r, View(request[r].url))
                /\ routeMarkup' = [routeMarkup EXCEPT ![r] = [status |-> "pending", markup |-> <<>>]]
                /\ pc' = [pc EXCEPT ![r] = "awaiting"]
                /\ UNCHANGED <<response, console, thrown>>
    /\ UNCHANGED <<request, head, asm, sel, registVars>>

\* The deferred data loading settles: when it resolves, frontloadServerRender
\* renders the tree a second time and resolves with the markup; a rejected
\* load or a throwing render rejects the awaited promise
Settle(r) ==
    /\ pc[r] = "awaiting"
    /\ pc' = [pc EXCEPT ![r] = "settled"]
    /\ \/ /\ routeMarkup' = [routeMarkup EXCEPT ![r] = [status |-> "rejected", markup |-> <<>>]]
          /\ UNCHANGED <<context, modules, helmet>>
       \/ /\ routeMarkup' = [routeMarkup EXCEPT ![r] =
                                [status |-> "resolved", markup |-> View(request[r].url).body]]
          /\ context' = [context EXCEPT ![r] = [url |-> View(request[r].url).redirect]]
          /\ modules' = [modules EXCEPT ![r] = @ \o View(request[r].url).modules]
          /\ helmet' = HelmetMount(helmet, r, View(request[r].url))
    /\ UNCHANGED <<request, store, head, response, console, renders, thrown,
                   asm, sel, registVars>>

\* The handler after the await
Resume(r) ==
    /\ pc[r] = "settled"
    /\ \/ /\ routeMarkup[r].status = "rejected"
          /\ Catch(r, "render")
          /\ UNCHANGED <<helmet, head>>
       \/ /\ routeMarkup[r].status = "resolved"
          /\ context[r].url # <<>>
          /\ pc' = [pc EXCEPT ![r] = "done"]
          /\ response' = [response EXCEPT ![r] = Redirect(r)]
          /\ UNCHANGED <<helmet, head, console, thrown>>
       \/ /\ routeMarkup[r].status = "resolved"
          /\ context[r].url = <<>>
          /\ \/ /\ \E step \in {"assets", "helmet"} : Catch(r, step)
                /\ UNCHANGED <<helmet, head>>
             \/ /\ helmet' = HelmetEmpty
                /\ \/ /\ Catch(r, "inject")
                      /\ UNCHANGED head
                   \/ /\ head' = [head EXCEPT ![r] = renderStatic(helmet)]
                      /\ pc' = [pc EXCEPT ![r] = "done"]
                      /\ response' = [response EXCEPT ![r] =
                            Document(injectHTML(htmlData,
                               [html |-> <<>>,
                                title |-> head'[r].title,
                                meta |-> head'[r].meta,
                                body |-> routeMarkup[r].markup,
                                scripts |-> extraChunks(manifest, modules[r]),
                                styles |-> View(request[r].url).styles,
                                state |-> serializeState(store[r])]))]
                      /\ UNCHANGED <<console, thrown>>
    /\ UNCHANGED <<request, store, context, modules, routeMarkup, renders,
                   asm, sel, registVars>>

(***************************************************************************)
(* Asset selection on its own (AssetSpec)                                  *)
(***************************************************************************)

MaxManifest == 2
MaxChunks == 2

ManifestEntries ==
    {[key |-> <<"r", "e", "g", "i", "s", "t", ".", "j", "s">>, path |-> <<"/", "s", "t", "a", "t", "i", "c", "/", "r", "e", "g", "i", "s", "t", ".", "a", "b", "c", "1", "2", "3", ".", "j", "s">>],
     [key |-> <<"l", "o", "g", "i", "n", ".", "j", "s">>, path |-> <<"s", "t", "a", "t", "i", "c", "/", "l", "o", "g", "i", "n", ".", "j", "s">>],
     [key |-> <<"m", "a", "i", "n", ".", "j", "s", ".", "m", "a", "p">>, path |-> <<"/", "s", "t", "a", "t", "i", "c", "/", "m", "a", "i", "n", ".", "j", "s", ".", "m", "a", "p">>],
     [key |-> <<"m", "a", "i", "n", ".", "c", "s", "s">>, path |-> <<"/", "/", "c", "d", "n", "/", "m", "a", "i", "n", ".", "c", "s", "s">>]}

ModuleIds == {<<"r", "e", "g", "i", "s", "t">>, <<"l", "o", "g", "i", "n">>, <<"m", "a", "i", "n", ".", "m", "a", "p">>, <<"m", "a", "i", "n", ".", "c", "s", "s">>}

SeqsUpTo(S, n) == UNION {[1..k -> S] : k \in 0..n}

\* An object holds each key once
Manifests ==
    {m \in SeqsUpTo(ManifestEntries, MaxManifest) :
        \A i, j \in 1..Len(m) : i # j => m[i].key # m[j].key}

SelIdle == [phase |-> "idle", assets |-> <<>>, chunks |-> <<>>, out |-> <<>>]

SelInputs ==
    [phase : {"input"}, assets : Manifests, chunks : SeqsUpTo(ModuleIds, MaxChunks),
     out : {<<>>}]

Select ==
    /\ sel.phase = "input"
    /\ sel' = [sel EXCEPT !.phase = "done", !.out = extraChunks(sel.assets, sel.chunks)]
    /\ UNCHANGED <<handlerVars, asm, registVars>>

(***************************************************************************)
(* Regist: the SMS-code countdown (RegistSpec)                             *)
(***************************************************************************)

ResendDelay == 60
MaxMounts == 2

\* <SmsCodeBtn disabled={countdown}>
ButtonDisabled == countdown # 0

\* The effect's body after a render with countdown n: no timer at 0,
\* otherwise one timeout whose callback holds n
EffectTimers(n) == IF n = 0 THEN {} ELSE {[inst |-> instance, value |-> n]}

\* Cleanup of an effect that returns no cleanup function (a fault C10 must
\* detect).
CleanupMissing(ts) == ts

\* The effect's cleanup, clearTimeout(timer): run before the next effect
\* and on unmount
Cleanup(ts) == {t \in ts : t.inst # instance}

\* --countdown
Decrement(n) == n - 1

\* The route renders a new Regist: useState(0), and the effect returns at 0
Mount ==
    /\ ~mounted
    /\ instance < MaxMounts
    /\ mounted' = TRUE
    /\ instance' = instance + 1
    /\ countdown' = 0
    /\ timers' = timers
    /\ UNCHANGED <<handlerVars, asm, sel>>

\* Leaving the page: the effect's cleanup runs, the state is dropped
Unmount ==
    /\ mounted
    /\ mounted' = FALSE
    /\ timers' = Cleanup(timers)
    /\ UNCHANGED <<countdown, instance, handlerVars, asm, sel>>

\* onClick={() => setCount(60)} on the enabled button, the render that
\* follows and its effect
Click ==
    /\ mounted
    /\ ~ButtonDisabled
    /\ countdown' = ResendDelay
    /\ timers' = Cleanup(timers) \cup EffectTimers(ResendDelay)
    /\ UNCHANGED <<mounted, instance, handlerVars, asm, sel>>

\* A timeout fires: setCount(--countdown) with the value its render held,
\* the render that follows and its effect; a callback of an instance that is
\* no longer mounted changes nothing
TimerFire(t) ==
    /\ t \in timers
    /\ IF mounted /\ t.inst = instance
       THEN /\ countdown' = Decrement(t.value)
            /\ timers' = Cleanup(timers \ {t}) \cup EffectTimers(Decrement(t.value))
       ELSE /\ timers' = timers \ {t}
            /\ UNCHANGED countdown
    /\ UNCHANGED <<mounted, instance, handlerVars, asm, sel>>

(***************************************************************************)
(* Specifications                                                          *)
(***************************************************************************)

HandlerIdle ==
    /\ pc = [r \in Reqs |-> "idle"]
    /\ request = [r \in Reqs |-> NoRequest]
    /\ store = [r \in Reqs |-> [currentUser |-> JsNull]]
    /\ context = [r \in Reqs |-> [url |-> <<>>]]
    /\ modules = [r \in Reqs |-> <<>>]
    /\ routeMarkup = [r \in Reqs |-> NoMarkup]
    /\ helmet = HelmetEmpty
    /\ response = [r \in Reqs |-> NoResponse]
    /\ console = [r \in Reqs |-> FALSE]
    /\ renders = [r \in Reqs |-> 0]
    /\ head = [r \in Reqs |-> NoHead]
    /\ thrown = [r \in Reqs |-> FALSE]

RegistIdle ==
    /\ countdown = 0
    /\ timers = {}
    /\ mounted = FALSE
    /\ instance = 0

Init == HandlerIdle /\ asm = AsmIdle /\ sel = SelIdle /\ RegistIdle

Next == \E r \in Reqs : Arrive(r) \/ Start(r) \/ Settle(r) \/ Resume(r)

Spec == Init /\ [][Next]_vars

\* The event loop runs every continuation that is ready, and the deferred
\* data loading is taken to settle
FairSpec ==
    /\ Spec
    /\ \A r \in Reqs : WF_vars(Start(r)) /\ WF_vars(Settle(r)) /\ WF_vars(Resume(r))

AssembleInit == HandlerIdle /\ asm \in AsmInputs /\ sel = SelIdle /\ RegistIdle

AssembleNext == Assemble

AssembleSpec == AssembleInit /\ [][AssembleNext]_vars

AssetInit == HandlerIdle /\ asm = AsmIdle /\ sel \in SelInputs /\ RegistIdle

AssetNext == Select

AssetSpec == AssetInit /\ [][AssetNext]_vars

RegistNext == Mount \/ Unmount \/ Click \/ (\E t \in timers : TimerFire(t))

RegistSpec == Init /\ [][RegistNext]_vars

\* A pending timeout fires after its delay
FairRegistSpec == RegistSpec /\ WF_vars(\E t \in timers : TimerFire(t))

(***************************************************************************)
(* Properties of handlSSR                                                  *)
(***************************************************************************)

Terminal == {"REDIRECT", "DOCUMENT", "NOT_FOUND"}

IsRedirectTo(resp, url) ==
    resp.kind = "REDIRECT" /\ resp.code = 302 /\ resp.location = url

\* C1 as stated: whenever the render recorded a redirect target
\* (context.url is set), the handler answers 302 with that target as
\* Location.
C1_RedirectWheneverRecorded ==
    \A r \in Reqs :
        pc[r] = "done" /\ context[r].url # <<>>
            => IsRedirectTo(response[r], context[r].url)

\* C1 as amended: when the render pass resolves with a redirect target
\* recorded, the handler answers 302 with exactly that target as Location;
\* when the pass rejects, it answers 404; in neither case is a document
\* returned.
C1_RedirectWhenRenderResolves ==
    \A r \in Reqs :
        pc[r] = "done" /\ context[r].url # <<>>
            => /\ response[r].kind # "DOCUMENT"
               /\ routeMarkup[r].status = "resolved"
                      => IsRedirectTo(response[r], context[r].url)
               /\ routeMarkup[r].status # "resolved" => response[r] = NotFound

C1_Witness ==
    \E r \in Reqs :
        /\ pc[r] = "done"
        /\ context[r].url = <<"/", "l", "o", "g", "i", "n">>
        /\ IsRedirectTo(response[r], <<"/", "l", "o", "g", "i", "n">>)

\* C2: a failure of any step of the handler ends the request with a logged
\* 404 whose body is empty; no document is returned for a request in which a
\* step failed, and no error reaches the client.
C2_FailuresBecomeNotFound ==
    \A r \in Reqs :
        /\ thrown[r] => pc[r] = "done" /\ response[r] = NotFound /\ console[r]
        /\ response[r].kind = "DOCUMENT" => ~thrown[r]
        /\ response[r].kind # "ERROR"
        /\ pc[r] = "done" /\ routeMarkup[r].status = "rejected" => thrown[r]

C2_Witness ==
    \E r \in Reqs :
        /\ thrown[r]
        /\ routeMarkup[r].status = "resolved"
        /\ response[r] = NotFound
        /\ console[r]

\* C4: every head fragment of a request's document (title, meta tags) is the
\* one its own render produced, under any interleaving of requests.
C4_FragmentsAreOwn ==
    \A r \in Reqs :
        response[r].kind = "DOCUMENT"
            => /\ head[r].title = View(request[r].url).title
               /\ head[r].titleOf = r
               /\ head[r].meta = View(request[r].url).meta
               /\ head[r].metaOf = (IF View(request[r].url).meta = <<>> THEN 0 ELSE r)

\* C5: for a request without the auth cookie, the store holds the logged-out
\* value from the cookie dispatch on, whatever createStore started from, and
\* the state embedded in its document is that value.
C5_NoCookieMeansLoggedOut ==
    \A r \in Reqs :
        ~request[r].state.has
            => /\ pc[r] \in {"awaiting", "settled"} => store[r].currentUser = JsNull
               /\ response[r].kind = "DOCUMENT"
                      => /\ store[r].currentUser = JsNull
                         /\ StateRegion(response[r].body) = <<"{", "\"", "c", "u", "r", "r", "e", "n", "t", "U", "s", "e", "r", "\"", ":", "n", "u", "l", "l", "}">>

C5_Witness ==
    \E r \in Reqs :
        /\ ~request[r].state.has
        /\ response[r].kind = "DOCUMENT"
        /\ Contains(response[r].body, <<"w", "i", "n", "d", "o", "w", ".", "_", "_", "P", "R", "E", "L", "O", "A", "D", "E", "D", "_", "S", "T", "A", "T", "E", "_", "_", " ", "=", " ", "{", "\"", "c", "u", "r", "r", "e", "n", "t", "U", "s", "e", "r", "\"", ":", "n", "u", "l", "l", "}", "<", "/", "s", "c", "r", "i", "p", "t", ">">>)

\* C6: for a request with the auth cookie, the store's current user is the
\* cookie's value, and that value is what the state embedded in its document
\* carries.
C6_CookieUserIsSerialized ==
    \A r \in Reqs :
        request[r].state.has /\ response[r].kind = "DOCUMENT"
            => /\ store[r].currentUser = JsString(request[r].state.mywebsite)
               /\ StateRegion(response[r].body)
                      = <<"{", "\"", "c", "u", "r", "r", "e", "n", "t", "U", "s", "e", "r", "\"", ":", "\"">>
                        \o QuoteJSONString(request[r].state.mywebsite) \o <<"\"", "}">>

\* A request is in RENDERING from its arrival until the handler returns
Rendering(r) == pc[r] \in {"rendering", "awaiting", "settled"}

\* C9: a request enters RENDERING when it arrives and, the deferred loading
\* settling, ends in exactly one of REDIRECT (302), DOCUMENT (200) and
\* NOT_FOUND (404); its outcome never changes afterwards, and the render
\* pass is started at most once for it. (Whenever some request is in
\* RENDERING, eventually none is; as a request never leaves its outcome nor
\* returns to idle, each request in RENDERING then has its outcome.)
C9_ResponseDispatch ==
    /\ (\E r \in Reqs : Rendering(r)) ~> (\A r \in Reqs : ~Rendering(r))
    /\ [](\A r \in Reqs :
            /\ pc[r] = "done" <=> response[r].kind \in Terminal
            /\ response[r].kind \in Terminal \cup {"none"}
            /\ response[r].kind = "REDIRECT" <=> response[r].code = 302
            /\ response[r].kind = "DOCUMENT" <=> response[r].code = 200
            /\ response[r].kind = "NOT_FOUND" <=> response[r].code = 404
            /\ renders[r] <= 1)
    /\ [][\A r \in Reqs :
            /\ pc[r] = "done"
                  => pc'[r] = "done" /\ response'[r] = response[r]
                     /\ renders'[r] = renders[r]
            /\ pc[r] = "idle" /\ pc'[r] # "idle" => pc'[r] = "rendering"
            /\ pc[r] # "idle" => pc'[r] # "idle"]_vars

C9_Witness ==
    \E r1, r2 \in Reqs :
        /\ response[r1].kind = "REDIRECT"
        /\ response[r2].kind = "NOT_FOUND"
        /\ renders[r2] = 1

(***************************************************************************)
(* Properties of the asset selection                                       *)
(***************************************************************************)

\* The key without its ".js" suffix
StripJsSuffix(key) ==
    IF EndsWith(key, JsSuffix) THEN SubSeq(key, 1, Len(key) - Len(JsSuffix)) ELSE key

RECURSIVE TagsBySuffix(_, _)
TagsBySuffix(assets, chunks) ==
    IF assets = <<>> THEN <<>>
    ELSE (IF Includes(chunks, StripJsSuffix(Head(assets).key))
          THEN <<<<"<", "s", "c", "r", "i", "p", "t", " ", "t", "y", "p", "e", "=", "\"", "t", "e", "x", "t", "/", "j", "a", "v", "a", "s", "c", "r", "i", "p", "t", "\"", " ", "s", "r", "c", "=", "\"">>
                 \o StripLeadingSlash(Head(assets).path) \o <<"\"", ">", "<", "/", "s", "c", "r", "i", "p", "t", ">">>>>
          ELSE <<>>)
         \o TagsBySuffix(Tail(assets), chunks)

\* C7: the script list holds, in manifest key order, one tag for each entry
\* whose key without the ".js" suffix is a touched module identifier, and no
\* other; the tag's src is the entry's path less one leading "/".
C7_SelectedIffSuffixlessKeyTouched ==
    sel.phase = "done" => sel.out = TagsBySuffix(sel.assets, sel.chunks)

(***************************************************************************)
(* Properties of the countdown                                             *)
(***************************************************************************)

\* C10 as stated, its liveness part: after a click the countdown eventually
\* reaches 0.
C10_CountdownReachesZero == (countdown > 0) ~> (countdown = 0)

\* C10 as amended: the countdown is in 0..60 and at most one timer is pending
\* (none at 0 or when unmounted, else the one of the current render); the
\* countdown changes only from 0 to 60 (a click on the enabled button), down
\* by exactly 1, or to 0 in a new instance; and while the instance stays
\* mounted, timer fairness brings the countdown to 0, where the button is
\* enabled again.
C10_Countdown ==
    /\ [](/\ countdown \in 0..ResendDelay
          /\ Cardinality(timers) <= 1
          /\ timers = (IF mounted /\ countdown # 0
                       THEN {[inst |-> instance, value |-> countdown]} ELSE {})
          /\ ButtonDisabled <=> countdown \in 1..ResendDelay)
    /\ [][countdown' # countdown
            => \/ mounted /\ mounted' /\ countdown = 0 /\ countdown' = ResendDelay
               \/ mounted /\ mounted' /\ countdown > 0 /\ countdown' = countdown - 1
               \/ ~mounted /\ mounted' /\ countdown' = 0]_vars
    /\ (mounted /\ countdown > 0) ~> (~mounted \/ (countdown = 0 /\ ~ButtonDisabled))

C10_Witness == mounted /\ instance = 2 /\ countdown = 1 /\ timers # {}

====
